---------------------------- MODULE Spec2Model ----------------------------
(***************************************************************************)
(* Differential codec for chains of DID:PLC operations (compress.py).      *)
(*                                                                         *)
(* Decoded trees are modelled as pairs <<kind, payload>>:                   *)
(*   "int"   an integer                 "bool"  a BOOLEAN                  *)
(*   "str"   a sequence of one-character strings                           *)
(*   "bytes" a sequence of integers 0..255                                 *)
(*   "tag"   [tag |-> n, value |-> leaf]             (cbor2.CBORTag)       *)
(*   "map"   a sequence of <<key, tree>> in dict iteration order           *)
(*   "list"  a sequence of trees                                           *)
(* so obj[1] is the kind of a node and obj[2] its payload.                 *)
(* A raised Python exception is the value Fault.                           *)
(***************************************************************************)
EXTENDS Integers, Sequences, FiniteSets, TLC

VARIABLES old, new, diff, patched, dpc,
          tree, packed, unpacked, repacked, spc,
          operations, blob, restored, cpc,
          subject, other, flat, consumed, aligned, hpc

vars == <<old, new, diff, patched, dpc,
          tree, packed, unpacked, repacked, spc,
          operations, blob, restored, cpc,
          subject, other, flat, consumed, aligned, hpc>>

diffVars == <<old, new, diff, patched, dpc>>
semVars == <<tree, packed, unpacked, repacked, spc>>
chainVars == <<operations, blob, restored, cpc>>
helperVars == <<subject, other, flat, consumed, aligned, hpc>>

(***************************************************************************)
(* Bounds of the explored inputs.                                          *)
(***************************************************************************)
MaxLen == 2
MaxChain == 3

(***************************************************************************)
(* Tree constructors and kind tests.                                       *)
(***************************************************************************)
Num(n) == <<"int", n>>
Bool(b) == <<"bool", b>>
Str(s) == <<"str", s>>
Bytes(b) == <<"bytes", b>>
Tagged(t, payload) == <<"tag", [tag |-> t, value |-> payload]>>
Map(entries) == <<"map", entries>>
List(items) == <<"list", items>>
Fault == <<"fault", "raised">>
None == <<"none", "none">>

IsDict(obj) == obj[1] = "map"
IsList(obj) == obj[1] = "list"
IsStr(obj) == obj[1] = "str"
IsTag(obj) == obj[1] = "tag"
IsFault(obj) == obj[1] = "fault"
IsContainer(obj) == IsDict(obj) \/ IsList(obj)

(***************************************************************************)
(* Python strings compare by code point.  Ascii lists the characters the   *)
(* model uses in ascending code-point order.                               *)
(***************************************************************************)
Ascii ==
  <<"!", "+", "-", "/", "0", "1", "2", "3", "4", "5", "6", "7", "8", "9", ":",
    "=", "A", "B", "C", "D", "E", "F", "G", "H", "I", "J", "K", "L", "M",
    "N", "O", "P", "Q", "R", "S", "T", "U", "V", "W", "X", "Y", "Z", "_",
    "a", "b", "c", "d", "e", "f", "g", "h", "i", "j", "k", "l", "m", "n",
    "o", "p", "q", "r", "s", "t", "u", "v", "w", "x", "y", "z">>

Ord(c) == CHOOSE i \in 1..Len(Ascii) : Ascii[i] = c

RECURSIVE StrLess(_, _)
StrLess(a, b) ==
  IF b = <<>> THEN FALSE
  ELSE IF a = <<>> THEN TRUE
  ELSE IF Head(a) = Head(b) THEN StrLess(Tail(a), Tail(b))
  ELSE Ord(Head(a)) < Ord(Head(b))

\* the sort key (len(k), k) of compute_diff and apply_diff
KeyLess(a, b) == Len(a) < Len(b) \/ (Len(a) = Len(b) /\ StrLess(a, b))

\* sorted(..., key=lambda kv: (len(kv[0]), kv[0])) over <<key, value>> pairs
RECURSIVE InsertEntry(_, _)
InsertEntry(sorted, e) ==
  IF sorted = <<>> THEN <<e>>
  ELSE IF KeyLess(e[1], Head(sorted)[1]) THEN <<e>> \o sorted
  ELSE <<Head(sorted)>> \o InsertEntry(Tail(sorted), e)

RECURSIVE SortEntries(_)
SortEntries(entries) ==
  IF entries = <<>> THEN <<>>
  ELSE InsertEntry(SortEntries(SubSeq(entries, 1, Len(entries) - 1)),
                   entries[Len(entries)])

(***************************************************************************)
(* dict helpers: keys(), `key in d`, d[key].                               *)
(***************************************************************************)
Keys(obj) == {obj[2][i][1] : i \in 1..Len(obj[2])}
HasKey(obj, key) == key \in Keys(obj)
Get(obj, key) == obj[2][CHOOSE i \in 1..Len(obj[2]) : obj[2][i][1] = key][2]

(***************************************************************************)
(* Python ==.  bool is a subclass of int (True == 1); dict equality        *)
(* ignores insertion order; CBORTag compares tag and value.                *)
(***************************************************************************)
RECURSIVE PyEq(_, _)
PyEq(a, b) ==
  IF IsDict(a) /\ IsDict(b) THEN
    /\ Keys(a) = Keys(b)
    /\ \A key \in Keys(a) : PyEq(Get(a, key), Get(b, key))
  ELSE IF IsList(a) /\ IsList(b) THEN
    /\ Len(a[2]) = Len(b[2])
    /\ \A i \in 1..Len(a[2]) : PyEq(a[2][i], b[2][i])
  ELSE IF a[1] = "int" /\ b[1] = "bool" THEN a[2] = (IF b[2] THEN 1 ELSE 0)
  ELSE IF a[1] = "bool" /\ b[1] = "int" THEN b[2] = (IF a[2] THEN 1 ELSE 0)
  ELSE IF IsTag(a) /\ IsTag(b) THEN
    a[2].tag = b[2].tag /\ PyEq(a[2].value, b[2].value)
  ELSE a[1] = b[1] /\ a[2] = b[2]

\* type(old_obj) != type(new_obj)
TypeDiffers(a, b) == a[1] # b[1]

(***************************************************************************)
(* Text encodings used by the semantic tag layer.  Byte strings are        *)
(* sequences of integers 0..255; character strings are sequences of        *)
(* one-character strings.                                                  *)
(***************************************************************************)
StartsWith(s, prefix) ==
  Len(s) >= Len(prefix) /\ SubSeq(s, 1, Len(prefix)) = prefix

\* 0-based position of c in alphabet, -1 when absent
Pos(alphabet, c) ==
  IF \E i \in 1..Len(alphabet) : alphabet[i] = c
    THEN (CHOOSE i \in 1..Len(alphabet) : alphabet[i] = c) - 1
    ELSE -1

Base64Std ==
  <<"A", "B", "C", "D", "E", "F", "G", "H", "I", "J", "K", "L", "M", "N", "O",
    "P", "Q", "R", "S", "T", "U", "V", "W", "X", "Y", "Z", "a", "b", "c", "d",
    "e", "f", "g", "h", "i", "j", "k", "l", "m", "n", "o", "p", "q", "r", "s",
    "t", "u", "v", "w", "x", "y", "z", "0", "1", "2", "3", "4", "5", "6", "7",
    "8", "9", "+", "/">>

Base58Btc ==
  <<"1", "2", "3", "4", "5", "6", "7", "8", "9", "A", "B", "C", "D", "E", "F",
    "G", "H", "J", "K", "L", "M", "N", "P", "Q", "R", "S", "T", "U", "V", "W",
    "X", "Y", "Z", "a", "b", "c", "d", "e", "f", "g", "h", "i", "j", "k", "m",
    "n", "o", "p", "q", "r", "s", "t", "u", "v", "w", "x", "y", "z">>

Base32Lower ==
  <<"a", "b", "c", "d", "e", "f", "g", "h", "i", "j", "k", "l", "m", "n", "o",
    "p", "q", "r", "s", "t", "u", "v", "w", "x", "y", "z", "2", "3", "4", "5",
    "6", "7">>

Base16Lower ==
  <<"0", "1", "2", "3", "4", "5", "6", "7", "8", "9", "a", "b", "c", "d", "e",
    "f">>

\* binascii.a2b_base64 in its default non-strict mode, one character at a
\* time: characters outside the alphabet are skipped, the excess bits of the
\* last character are dropped, and a pad that completes a quad ends the input
A2bStep(st, c) ==
  IF st.done THEN st
  ELSE IF c = "=" THEN
    IF st.quad_pos >= 2 /\ st.quad_pos + st.pads + 1 >= 4
      THEN [st EXCEPT !.done = TRUE]
      ELSE [st EXCEPT !.pads = IF st.quad_pos >= 2 THEN @ + 1 ELSE @]
  ELSE LET this_ch == Pos(Base64Std, c)
       IN IF this_ch < 0 THEN st
          ELSE CASE st.quad_pos = 0 ->
                   [st EXCEPT !.quad_pos = 1, !.leftchar = this_ch, !.pads = 0]
              [] st.quad_pos = 1 ->
                   [st EXCEPT !.quad_pos = 2, !.pads = 0,
                      !.raw = Append(@, st.leftchar * 4 + this_ch \div 16),
                      !.leftchar = this_ch % 16]
              [] st.quad_pos = 2 ->
                   [st EXCEPT !.quad_pos = 3, !.pads = 0,
                      !.raw = Append(@, st.leftchar * 16 + this_ch \div 4),
                      !.leftchar = this_ch % 4]
              [] st.quad_pos = 3 ->
                   [st EXCEPT !.quad_pos = 0, !.pads = 0,
                      !.raw = Append(@, st.leftchar * 64 + this_ch),
                      !.leftchar = 0]

\* the characters data[lo..hi] fed to A2bStep in order
RECURSIVE A2bRange(_, _, _, _)
A2bRange(data, lo, hi, st) ==
  IF lo > hi THEN st
  ELSE IF lo = hi THEN A2bStep(st, data[lo])
  ELSE LET mid == (lo + hi) \div 2
           left == A2bRange(data, lo, mid, st)
       IN IF left.done THEN left ELSE A2bRange(data, mid + 1, hi, left)

\* base64.urlsafe_b64decode: "-" and "_" are translated, then a2b_base64;
\* a data length of 1 mod 4 or a missing pad raises
UrlsafeB64Decode(s) ==
  LET st == A2bRange(
              [i \in 1..Len(s) |->
                 IF s[i] = "-" THEN "+" ELSE IF s[i] = "_" THEN "/" ELSE s[i]],
              1, Len(s),
              [quad_pos |-> 0, leftchar |-> 0, pads |-> 0, raw |-> <<>>,
               done |-> FALSE])
  IN [ok |-> st.done \/ st.quad_pos = 0, raw |-> st.raw]

\* bit k (0-based, most significant first) of a byte string, 0 past its end
BitAt(raw, k) ==
  IF k \div 8 < Len(raw) THEN (raw[k \div 8 + 1] \div (2 ^ (7 - (k % 8)))) % 2 ELSE 0

\* the number written by the w bits from bit k on
RECURSIVE BitsAt(_, _, _)
BitsAt(raw, k, w) ==
  IF w = 0 THEN 0 ELSE 2 * BitsAt(raw, k, w - 1) + BitAt(raw, k + w - 1)

\* base64.urlsafe_b64encode(raw).rstrip(b"=").decode(): six bits per character
UrlsafeB64Encode(raw) ==
  [j \in 1..((8 * Len(raw) + 5) \div 6) |->
     LET c == Base64Std[BitsAt(raw, 6 * (j - 1), 6) + 1]
     IN IF c = "+" THEN "-" ELSE IF c = "/" THEN "_" ELSE c]

\* big-endian byte string times m plus carry
RECURSIVE MulAdd(_, _, _)
MulAdd(raw, m, carry) ==
  IF raw = <<>> THEN
    IF carry = 0 THEN <<>>
    ELSE MulAdd(<<>>, m, carry \div 256) \o <<carry % 256>>
  ELSE LET last == raw[Len(raw)] * m + carry
       IN MulAdd(SubSeq(raw, 1, Len(raw) - 1), m, last \div 256)
            \o <<last % 256>>

\* big-endian byte string divided by m: quotient (leading zeros kept) and remainder
RECURSIVE DivMod(_, _, _)
DivMod(raw, m, rem) ==
  IF raw = <<>> THEN [quot |-> <<>>, rem |-> rem]
  ELSE LET cur == rem * 256 + Head(raw)
           rest == DivMod(Tail(raw), m, cur % m)
       IN [quot |-> <<cur \div m>> \o rest.quot, rem |-> rest.rem]

RECURSIVE StripZeros(_)
StripZeros(raw) ==
  IF raw # <<>> /\ Head(raw) = 0 THEN StripZeros(Tail(raw)) ELSE raw

RECURSIVE LeadingCount(_, _)
LeadingCount(s, x) ==
  IF s # <<>> /\ Head(s) = x THEN 1 + LeadingCount(Tail(s), x) ELSE 0

\* base58btc: each leading "1" is a zero byte, the rest is one big number
RECURSIVE Base58Number(_, _)
Base58Number(digits, raw) ==
  IF digits = <<>> THEN raw
  ELSE Base58Number(Tail(digits), MulAdd(raw, 58, Pos(Base58Btc, Head(digits))))

Base58Decode(s) ==
  IF \E i \in 1..Len(s) : Pos(Base58Btc, s[i]) < 0 THEN [ok |-> FALSE, raw |-> <<>>]
  ELSE LET zeros == LeadingCount(s, "1")
       IN [ok |-> TRUE,
           raw |-> [i \in 1..zeros |-> 0]
                     \o Base58Number(SubSeq(s, zeros + 1, Len(s)), <<>>)]

RECURSIVE Base58Digits(_)
Base58Digits(raw) ==
  IF StripZeros(raw) = <<>> THEN <<>>
  ELSE LET dm == DivMod(StripZeros(raw), 58, 0)
       IN Base58Digits(dm.quot) \o <<Base58Btc[dm.rem + 1]>>

Base58Encode(raw) ==
  [i \in 1..LeadingCount(raw, 0) |-> "1"] \o Base58Digits(raw)

\* base16: two digits per byte
Base16Decode(s) ==
  IF Len(s) % 2 # 0 \/ \E i \in 1..Len(s) : Pos(Base16Lower, s[i]) < 0
    THEN [ok |-> FALSE, raw |-> <<>>]
    ELSE [ok |-> TRUE,
          raw |-> [i \in 1..(Len(s) \div 2) |->
                     Pos(Base16Lower, s[2 * i - 1]) * 16 + Pos(Base16Lower, s[2 * i])]]

\* base32 without padding: five bits per character, whole bytes only
Base32Decode(s) ==
  IF \E i \in 1..Len(s) : Pos(Base32Lower, s[i]) < 0
    THEN [ok |-> FALSE, raw |-> <<>>]
    ELSE LET bit(k) == (Pos(Base32Lower, s[k \div 5 + 1]) \div (2 ^ (4 - (k % 5)))) % 2
             byte(i) == 128 * bit(8 * i) + 64 * bit(8 * i + 1) + 32 * bit(8 * i + 2)
                        + 16 * bit(8 * i + 3) + 8 * bit(8 * i + 4)
                        + 4 * bit(8 * i + 5) + 2 * bit(8 * i + 6) + bit(8 * i + 7)
         IN [ok |-> TRUE,
             raw |-> [i \in 1..((5 * Len(s)) \div 8) |-> byte(i - 1)]]

Base32Encode(raw) ==
  [j \in 1..((8 * Len(raw) + 4) \div 5) |->
     Base32Lower[BitsAt(raw, 5 * (j - 1), 5) + 1]]

\* multibase.decode: the first character names the encoding of the rest
MultibaseDecode(s) ==
  IF s = <<>> THEN [ok |-> FALSE, raw |-> <<>>]
  ELSE IF Head(s) = "z" THEN Base58Decode(Tail(s))
  ELSE IF Head(s) = "f" THEN Base16Decode(Tail(s))
  ELSE IF Head(s) = "b" THEN Base32Decode(Tail(s))
  ELSE [ok |-> FALSE, raw |-> <<>>]

\* multibase.encode(raw, "base58btc") and multibase.encode(raw, "base32")
MultibaseEncode58(raw) == <<"z">> \o Base58Encode(raw)
MultibaseEncode32(raw) == <<"b">> \o Base32Encode(raw)

(***************************************************************************)
(* Semantic tag layer.                                                     *)
(***************************************************************************)
TAG_SIG == 6
TAG_CID == 7
TAG_DID_KEY == 8
TAG_AT_URI == 9

CidLength == 59
SigLength == 86
SigBytes == 64

DidKeyPrefix == <<"d", "i", "d", ":", "k", "e", "y", ":">>
AtPrefix == <<"a", "t", ":", "/", "/">>
CidPrefix == <<"b", "a", "f", "y", "r", "e", "i">>

SemCompressValue(val) ==
  IF ~IsStr(val) THEN val
  ELSE IF StartsWith(val[2], DidKeyPrefix) THEN
    LET dec == MultibaseDecode(SubSeq(val[2], Len(DidKeyPrefix) + 1, Len(val[2])))
    IN IF dec.ok THEN Tagged(TAG_DID_KEY, Bytes(dec.raw)) ELSE Fault
  ELSE IF StartsWith(val[2], AtPrefix) THEN
    Tagged(TAG_AT_URI, Str(SubSeq(val[2], Len(AtPrefix) + 1, Len(val[2]))))
  ELSE IF StartsWith(val[2], CidPrefix) /\ Len(val[2]) = CidLength THEN
    LET dec == MultibaseDecode(val[2])
    IN IF dec.ok THEN Tagged(TAG_CID, Bytes(dec.raw)) ELSE Fault
  ELSE IF Len(val[2]) = SigLength THEN
    LET dec == UrlsafeB64Decode(val[2] \o <<"=", "=">>)
    IN IF dec.ok /\ Len(dec.raw) = SigBytes
         THEN Tagged(TAG_SIG, Bytes(dec.raw)) ELSE val
  ELSE val

SemDecompressValue(val) ==
  IF ~IsTag(val) THEN val
  ELSE IF val[2].tag = TAG_SIG THEN
    IF val[2].value[1] = "bytes"
      THEN Str(UrlsafeB64Encode(val[2].value[2])) ELSE Fault
  ELSE IF val[2].tag = TAG_CID THEN
    IF val[2].value[1] = "bytes"
      THEN Str(MultibaseEncode32(val[2].value[2])) ELSE Fault
  ELSE IF val[2].tag = TAG_DID_KEY THEN
    IF val[2].value[1] = "bytes"
      THEN Str(DidKeyPrefix \o MultibaseEncode58(val[2].value[2])) ELSE Fault
  ELSE IF val[2].tag = TAG_AT_URI THEN
    IF val[2].value[1] = "str"
      THEN Str(AtPrefix \o val[2].value[2]) ELSE Fault
  ELSE val

\* a fault raised at any leaf aborts the whole recursive call
\* a compressor that also compresses the payload of a tagged leaf
RECURSIVE SemCompressThroughTags(_)
SemCompressThroughTags(obj) ==
  IF IsDict(obj) THEN
    LET out == [i \in 1..Len(obj[2]) |->
                  <<obj[2][i][1], SemCompressThroughTags(obj[2][i][2])>>]
    IN IF \E i \in 1..Len(out) : IsFault(out[i][2]) THEN Fault ELSE Map(out)
  ELSE IF IsList(obj) THEN
    LET out == [i \in 1..Len(obj[2]) |-> SemCompressThroughTags(obj[2][i])]
    IN IF \E i \in 1..Len(out) : IsFault(out[i]) THEN Fault ELSE List(out)
  ELSE IF IsTag(obj) THEN Tagged(obj[2].tag, SemCompressValue(obj[2].value))
  ELSE SemCompressValue(obj)

RECURSIVE SemCompress(_)
SemCompress(obj) ==
  IF IsDict(obj) THEN
    LET out == [i \in 1..Len(obj[2]) |-> <<obj[2][i][1], SemCompress(obj[2][i][2])>>]
    IN IF \E i \in 1..Len(out) : IsFault(out[i][2]) THEN Fault ELSE Map(out)
  ELSE IF IsList(obj) THEN
    LET out == [i \in 1..Len(obj[2]) |-> SemCompress(obj[2][i])]
    IN IF \E i \in 1..Len(out) : IsFault(out[i]) THEN Fault ELSE List(out)
  ELSE SemCompressValue(obj)

RECURSIVE SemDecompress(_)
SemDecompress(obj) ==
  IF IsTag(obj) THEN SemDecompressValue(obj)
  ELSE IF IsDict(obj) THEN
    LET out == [i \in 1..Len(obj[2]) |-> <<obj[2][i][1], SemDecompress(obj[2][i][2])>>]
    IN IF \E i \in 1..Len(out) : IsFault(out[i][2]) THEN Fault ELSE Map(out)
  ELSE IF IsList(obj) THEN
    LET out == [i \in 1..Len(obj[2]) |-> SemDecompress(obj[2][i])]
    IN IF \E i \in 1..Len(out) : IsFault(out[i]) THEN Fault ELSE List(out)
  ELSE obj

(***************************************************************************)
(* Indexer.  IndexWalk is build_index._walk: one index for the node, and   *)
(* for a map two more per entry (entry marker, key name) before the value. *)
(* Each consumed index is kept as a slot [idx, role, node]; role is the    *)
(* position the index was taken for: "root", "value" (of a map entry),     *)
(* "elem" (of a list), "key" (field name) or "entry" (map entry marker).   *)
(***************************************************************************)
RECURSIVE IndexWalk(_, _, _), IndexWalkDict(_, _, _), IndexWalkList(_, _, _)
IndexWalk(obj, role, counter) ==
  LET here == {[idx |-> counter, role |-> role, node |-> obj]}
      acc == [slots |-> here, counter |-> counter + 1]
  IN IF IsDict(obj) THEN IndexWalkDict(obj, 1, acc)
     ELSE IF IsList(obj) THEN IndexWalkList(obj, 1, acc)
     ELSE acc

IndexWalkDict(obj, i, acc) ==
  IF i > Len(obj[2]) THEN acc
  ELSE LET key == obj[2][i][1]
           sub == IndexWalk(obj[2][i][2], "value", acc.counter + 2)
       IN IndexWalkDict(obj, i + 1,
            [slots |-> acc.slots
                         \cup {[idx |-> acc.counter, role |-> "entry", node |-> Str(key)],
                               [idx |-> acc.counter + 1, role |-> "key", node |-> Str(key)]}
                         \cup sub.slots,
             counter |-> sub.counter])

IndexWalkList(obj, i, acc) ==
  IF i > Len(obj[2]) THEN acc
  ELSE LET sub == IndexWalk(obj[2][i], "elem", acc.counter)
       IN IndexWalkList(obj, i + 1,
            [slots |-> acc.slots \cup sub.slots, counter |-> sub.counter])

\* every index the walk consumes, with its role
Slots(obj) == IndexWalk(obj, "root", 0).slots

\* a mapping that also has an item for every entry marker
BuildIndexAll(obj) ==
  [i \in {s.idx : s \in Slots(obj)} |-> (CHOOSE s \in Slots(obj) : s.idx = i).node]

\* build_index: {index: value} for all entities except map entry groupings
BuildIndex(obj) ==
  LET items == {s \in Slots(obj) : s.role # "entry"}
  IN [i \in {s.idx : s \in items} |-> (CHOOSE s \in items : s.idx = i).node]

RECURSIVE CountIndices(_), CountEntries(_, _), CountItems(_, _)
CountIndices(obj) ==
  IF IsDict(obj) THEN 1 + CountEntries(obj, 1)
  ELSE IF IsList(obj) THEN 1 + CountItems(obj, 1)
  ELSE 1

CountEntries(obj, i) ==
  IF i > Len(obj[2]) THEN 0
  ELSE 2 + CountIndices(obj[2][i][2]) + CountEntries(obj, i + 1)

CountItems(obj, i) ==
  IF i > Len(obj[2]) THEN 0
  ELSE CountIndices(obj[2][i]) + CountItems(obj, i + 1)

(***************************************************************************)
(* compute_lcs: dynamic-programming table and backward reconstruction.     *)
(* Positions are 0-based as in the source.                                 *)
(***************************************************************************)
Max(a, b) == IF a >= b THEN a ELSE b

LcsTable(old_list, new_list) ==
  LET n == Len(old_list)
      m == Len(new_list)
      dp[i \in 0..n, j \in 0..m] ==
        IF i = 0 \/ j = 0 THEN 0
        ELSE IF PyEq(old_list[i], new_list[j]) THEN dp[i - 1, j - 1] + 1
        ELSE Max(dp[i - 1, j], dp[i, j - 1])
  IN dp

RECURSIVE LcsBack(_, _, _, _, _)
LcsBack(old_list, new_list, dp, i, j) ==
  IF ~(i > 0 /\ j > 0) THEN <<>>
  ELSE IF PyEq(old_list[i], new_list[j])
    THEN LcsBack(old_list, new_list, dp, i - 1, j - 1) \o << <<i - 1, j - 1>> >>
  ELSE IF dp[i - 1, j] >= dp[i, j - 1]
    THEN LcsBack(old_list, new_list, dp, i - 1, j)
  ELSE LcsBack(old_list, new_list, dp, i, j - 1)

ComputeLcs(old_list, new_list) ==
  LcsBack(old_list, new_list, LcsTable(old_list, new_list),
          Len(old_list), Len(new_list))

(***************************************************************************)
(* Python dict helpers used by the differ and the patcher: d[key] = val    *)
(* on a dict keyed by index, and d.setdefault(key, []).append(val).        *)
(***************************************************************************)
EmptyDict == [x \in {} |-> None]

Put(d, key, val) ==
  [x \in (DOMAIN d) \cup {key} |-> IF x = key THEN val ELSE d[x]]

SetDefaultAppend(d, key, val) ==
  Put(d, key, (IF key \in DOMAIN d THEN d[key] ELSE <<>>) \o <<val>>)

\* sorted(added, key=lambda k: (len(k), k))
RECURSIVE SortKeys(_)
SortKeys(S) ==
  IF S = {} THEN <<>>
  ELSE LET least == CHOOSE x \in S : \A y \in S \ {x} : KeyLess(x, y)
       IN <<least>> \o SortKeys(S \ {least})

(***************************************************************************)
(* compute_diff.  The state st carries the four result fields and the      *)
(* shared counter that _next and _advance move.                            *)
(***************************************************************************)
EmptyDiff ==
  [updates |-> EmptyDict, deletes |-> {}, inserts |-> EmptyDict,
   prepends |-> EmptyDict]

\* a counter that starts one too far
DiffStartAtOne ==
  [updates |-> EmptyDict, deletes |-> {}, inserts |-> EmptyDict,
   prepends |-> EmptyDict, counter |-> 1]

DiffStart ==
  [updates |-> EmptyDict, deletes |-> {}, inserts |-> EmptyDict,
   prepends |-> EmptyDict, counter |-> 0]

\* for k in sorted(added): inserts.setdefault(idx, []).append([k, new_obj[k]])
RECURSIVE AddedKeys(_, _, _, _, _)
AddedKeys(st, idx, added, new_obj, i) ==
  IF i > Len(added) THEN st
  ELSE AddedKeys(
         [st EXCEPT !.inserts =
            SetDefaultAppend(@, idx,
              List(<<Str(added[i]), Get(new_obj, added[i])>>))],
         idx, added, new_obj, i + 1)

\* a type mismatch records the new subtree; only _next has moved the counter
DiffMismatch(old_obj, new_obj, idx, st) ==
  [st EXCEPT !.updates = Put(@, idx, new_obj)]

RECURSIVE DiffNode(_, _, _), DiffKeys(_, _, _, _), DiffElems(_, _, _, _, _),
          ClassifyNew(_, _, _, _, _, _)
DiffNode(old_obj, new_obj, st) ==
  LET idx == st.counter
      s1 == [st EXCEPT !.counter = idx + 1]
  IN IF IsDict(old_obj) /\ IsDict(new_obj) THEN
       LET added == SortKeys(Keys(new_obj) \ Keys(old_obj))
       IN DiffKeys(old_obj, new_obj, 1,
                   AddedKeys(s1, idx, added, new_obj, 1))
     ELSE IF IsList(old_obj) /\ IsList(new_obj) THEN
       LET lcs_pairs == ComputeLcs(old_obj[2], new_obj[2])
           walked == DiffElems(old_obj, new_obj, lcs_pairs, 0,
                               [st |-> s1, old_elem_indices |-> EmptyDict])
       IN ClassifyNew(new_obj, lcs_pairs, walked.old_elem_indices, idx, 0,
                      walked.st)
     ELSE IF TypeDiffers(old_obj, new_obj) THEN
       DiffMismatch(old_obj, new_obj, idx, s1)
     ELSE IF ~PyEq(old_obj, new_obj) THEN
       [s1 EXCEPT !.updates = Put(@, idx, new_obj)]
     ELSE s1

\* for key in old_obj: entry marker, key name, then delete or recurse
DiffKeys(old_obj, new_obj, i, st) ==
  IF i > Len(old_obj[2]) THEN st
  ELSE LET key == old_obj[2][i][1]
           entry_idx == st.counter
           s1 == [st EXCEPT !.counter = entry_idx + 2]
       IN IF ~HasKey(new_obj, key) THEN
            DiffKeys(old_obj, new_obj, i + 1,
              [s1 EXCEPT !.deletes = @ \cup {entry_idx},
                         !.counter = @ + CountIndices(old_obj[2][i][2])])
          ELSE
            DiffKeys(old_obj, new_obj, i + 1,
              DiffNode(old_obj[2][i][2], Get(new_obj, key), s1))

\* for i, item in enumerate(old_obj): record the flat index, recurse or delete
DiffElems(old_obj, new_obj, lcs_pairs, i, acc) ==
  IF i >= Len(old_obj[2]) THEN acc
  ELSE LET item == old_obj[2][i + 1]
           here == acc.st.counter
           indices == Put(acc.old_elem_indices, i, here)
           old_matched == {lcs_pairs[p][1] : p \in 1..Len(lcs_pairs)}
       IN IF i \in old_matched THEN
            LET first == CHOOSE p \in 1..Len(lcs_pairs) :
                           /\ lcs_pairs[p][1] = i
                           /\ \A q \in 1..(p - 1) : lcs_pairs[q][1] # i
                matched_new_pos == lcs_pairs[first][2]
            IN DiffElems(old_obj, new_obj, lcs_pairs, i + 1,
                 [st |-> DiffNode(item, new_obj[2][matched_new_pos + 1], acc.st),
                  old_elem_indices |-> indices])
          ELSE
            DiffElems(old_obj, new_obj, lcs_pairs, i + 1,
              [st |-> [acc.st EXCEPT !.deletes = @ \cup {here},
                                     !.counter = @ + CountIndices(item)],
               old_elem_indices |-> indices])

\* for j in range(len(new_obj)): a new-only element is a prepend on the next
\* matched element, or an insert on the list when none follows
ClassifyNew(new_obj, lcs_pairs, old_elem_indices, idx, j, st) ==
  IF j >= Len(new_obj[2]) THEN st
  ELSE LET new_matched == {lcs_pairs[p][2] : p \in 1..Len(lcs_pairs)}
           after == {np \in new_matched : np > j}
       IN IF j \in new_matched THEN
            ClassifyNew(new_obj, lcs_pairs, old_elem_indices, idx, j + 1, st)
          ELSE IF after # {} THEN
            LET next_lcs_new == CHOOSE np \in after : \A x \in after : np <= x
                last == CHOOSE p \in 1..Len(lcs_pairs) :
                          /\ lcs_pairs[p][2] = next_lcs_new
                          /\ \A q \in (p + 1)..Len(lcs_pairs) :
                               lcs_pairs[q][2] # next_lcs_new
                old_pos == lcs_pairs[last][1]
                target_idx == old_elem_indices[old_pos]
            IN ClassifyNew(new_obj, lcs_pairs, old_elem_indices, idx, j + 1,
                 [st EXCEPT !.prepends =
                    SetDefaultAppend(@, target_idx, new_obj[2][j + 1])])
          ELSE
            ClassifyNew(new_obj, lcs_pairs, old_elem_indices, idx, j + 1,
              [st EXCEPT !.inserts =
                 SetDefaultAppend(@, idx, new_obj[2][j + 1])])

ComputeDiff(old_obj, new_obj) ==
  LET st == DiffNode(old_obj, new_obj, DiffStart)
  IN [updates |-> st.updates, deletes |-> st.deletes,
      inserts |-> st.inserts, prepends |-> st.prepends]

(***************************************************************************)
(* apply_diff.  The patcher mutates a deep copy in place through setters;  *)
(* ApplyWalk returns both the walked object after its in-place mutation    *)
(* (obj) and the value now held in the parent's slot (slot): they differ   *)
(* when setter(updates[idx]) replaced a container that the walk then       *)
(* still descends into.  ok is FALSE when a Python exception was raised.   *)
(***************************************************************************)
\* `for key, val in inserts[idx]` unpacks one addition into a pair; the
\* re-sort that follows takes len(key), so the key has to be a string
Unpack(addition) ==
  IF IsList(addition) /\ Len(addition[2]) = 2 /\ IsStr(addition[2][1]) THEN
    [ok |-> TRUE, key |-> addition[2][1][2], val |-> addition[2][2]]
  ELSE IF IsStr(addition) /\ Len(addition[2]) = 2 THEN
    [ok |-> TRUE, key |-> <<addition[2][1]>>, val |-> Str(<<addition[2][2]>>)]
  ELSE IF IsDict(addition) /\ Len(addition[2]) = 2 THEN
    [ok |-> TRUE, key |-> addition[2][1][1], val |-> Str(addition[2][2][1])]
  ELSE [ok |-> FALSE, key |-> <<>>, val |-> None]

\* obj[key] = val on an ordered dict: in place when present, else at the end
SetItem(entries, key, val) ==
  IF \E i \in 1..Len(entries) : entries[i][1] = key
  THEN [i \in 1..Len(entries) |->
          IF entries[i][1] = key THEN <<key, val>> ELSE entries[i]]
  ELSE Append(entries, <<key, val>>)

\* a patcher that drops map additions
InsertNone(entries, additions, i) == [ok |-> TRUE, entries |-> entries]

RECURSIVE InsertAll(_, _, _)
InsertAll(entries, additions, i) ==
  IF i > Len(additions) THEN [ok |-> TRUE, entries |-> entries]
  ELSE LET u == Unpack(additions[i])
       IN IF ~u.ok THEN [ok |-> FALSE, entries |-> entries]
          ELSE InsertAll(SetItem(entries, u.key, u.val), additions, i + 1)

\* a dict left in insertion order
KeepOrder(entries) == entries

\* sorted(obj.items(), key=(len, key)); obj.clear(); refill
Resort(entries) == SortEntries(entries)

\* the new_items loop: prepends before an element, then the element unless deleted
RECURSIVE NewItems(_, _, _, _)
NewItems(items, prepend_map, delete_positions, i) ==
  IF i >= Len(items) THEN <<>>
  ELSE (IF i \in DOMAIN prepend_map THEN prepend_map[i] ELSE <<>>)
       \o (IF i \notin delete_positions THEN <<items[i + 1]>> ELSE <<>>)
       \o NewItems(items, prepend_map, delete_positions, i + 1)

RECURSIVE ApplyWalk(_, _, _), ApplyWalkDict(_, _, _, _), ApplyWalkList(_, _, _, _)
ApplyWalk(obj, counter, d) ==
  LET idx == counter
      hit == idx \in DOMAIN d.updates
  IN IF hit /\ ~IsContainer(obj) THEN
       [obj |-> obj, slot |-> d.updates[idx], counter |-> idx + 1, ok |-> TRUE]
     ELSE IF IsDict(obj) THEN
       LET w == ApplyWalkDict(obj, d, 1,
                  [entries |-> obj[2], counter |-> idx + 1,
                   keys_to_delete |-> {}, ok |-> TRUE])
           kept == SelectSeq(w.entries, LAMBDA e : e[1] \notin w.keys_to_delete)
           ins == IF idx \in DOMAIN d.inserts
                    THEN InsertAll(kept, d.inserts[idx], 1)
                    ELSE [ok |-> TRUE, entries |-> kept]
           done == IF w.keys_to_delete # {} \/ idx \in DOMAIN d.inserts
                     THEN Resort(ins.entries) ELSE ins.entries
       IN IF ~w.ok \/ ~ins.ok THEN
            [obj |-> obj, slot |-> obj, counter |-> w.counter, ok |-> FALSE]
          ELSE
            [obj |-> Map(done),
             slot |-> IF hit THEN d.updates[idx] ELSE Map(done),
             counter |-> w.counter, ok |-> TRUE]
     ELSE IF IsList(obj) THEN
       LET w == ApplyWalkList(obj, d, 0,
                  [items |-> obj[2], counter |-> idx + 1,
                   delete_positions |-> {}, prepend_map |-> EmptyDict,
                   ok |-> TRUE])
           new_items == NewItems(w.items, w.prepend_map, w.delete_positions, 0)
                        \o (IF idx \in DOMAIN d.inserts
                              THEN d.inserts[idx] ELSE <<>>)
       IN IF ~w.ok THEN
            [obj |-> obj, slot |-> obj, counter |-> w.counter, ok |-> FALSE]
          ELSE
            [obj |-> List(new_items),
             slot |-> IF hit THEN d.updates[idx] ELSE List(new_items),
             counter |-> w.counter, ok |-> TRUE]
     ELSE [obj |-> obj, slot |-> obj, counter |-> idx + 1, ok |-> TRUE]

\* for key in list(obj.keys()): entry marker, key name, then skip or recurse
ApplyWalkDict(obj, d, i, acc) ==
  IF i > Len(obj[2]) \/ ~acc.ok THEN acc
  ELSE LET key == obj[2][i][1]
           entry_idx == acc.counter
       IN IF entry_idx \in d.deletes THEN
            ApplyWalkDict(obj, d, i + 1,
              [acc EXCEPT !.counter = entry_idx + 2 + CountIndices(obj[2][i][2]),
                          !.keys_to_delete = @ \cup {key}])
          ELSE
            LET sub == ApplyWalk(obj[2][i][2], entry_idx + 2, d)
            IN ApplyWalkDict(obj, d, i + 1,
                 [acc EXCEPT !.entries = SetItem(@, key, sub.slot),
                             !.counter = sub.counter,
                             !.ok = sub.ok])

\* for i, item in enumerate(obj): skip a deleted element, else note prepends and recurse
ApplyWalkList(obj, d, i, acc) ==
  IF i >= Len(obj[2]) \/ ~acc.ok THEN acc
  ELSE LET item == obj[2][i + 1]
           elem_idx == acc.counter
       IN IF elem_idx \in d.deletes THEN
            ApplyWalkList(obj, d, i + 1,
              [acc EXCEPT !.counter = elem_idx + CountIndices(item),
                          !.delete_positions = @ \cup {i}])
          ELSE
            LET sub == ApplyWalk(item, elem_idx, d)
            IN ApplyWalkList(obj, d, i + 1,
                 [acc EXCEPT !.items[i + 1] = sub.slot,
                             !.counter = sub.counter,
                             !.prepend_map =
                               IF elem_idx \in DOMAIN d.prepends
                                 THEN Put(@, i, d.prepends[elem_idx]) ELSE @,
                             !.ok = sub.ok])

\* a walk that runs on the caller's object itself
WalkInPlace(obj, walked) == walked

\* obj = copy.deepcopy(obj): the walk's in-place changes (walked is the
\* object it leaves behind) land on the copy, the caller's object keeps
\* its value
InputAfterApply(obj, walked) == obj

\* the caller's tree once apply_diff has returned
ApplyDiffInput(obj, updates, deletes, inserts, prepends) ==
  InputAfterApply(obj,
    ApplyWalk(obj, 0,
      [updates |-> updates, deletes |-> deletes,
       inserts |-> inserts, prepends |-> prepends]).obj)

\* _walk(obj, lambda v: None); return obj -- the root setter drops its value
ApplyDiff(obj, updates, deletes, inserts, prepends) ==
  LET w == ApplyWalk(obj, 0,
             [updates |-> updates, deletes |-> deletes,
              inserts |-> inserts, prepends |-> prepends])
  IN IF w.ok THEN w.obj ELSE Fault

(***************************************************************************)
(* dag_cbor.encode, the canonical encoding the round-trip tests compare:   *)
(* map keys are written sorted by (length, bytes) at every depth, and a    *)
(* cbor2.CBORTag is not encodable.  The encoding is represented by the     *)
(* key-sorted tree, which determines the bytes.                            *)
(***************************************************************************)
RECURSIVE DagCborEncode(_)
DagCborEncode(obj) ==
  IF IsDict(obj) THEN
    LET enc == [i \in 1..Len(obj[2]) |-> <<obj[2][i][1], DagCborEncode(obj[2][i][2])>>]
    IN IF \E i \in 1..Len(enc) : IsFault(enc[i][2]) THEN Fault
       ELSE Map(SortEntries(enc))
  ELSE IF IsList(obj) THEN
    LET enc == [i \in 1..Len(obj[2]) |-> DagCborEncode(obj[2][i])]
    IN IF \E i \in 1..Len(enc) : IsFault(enc[i]) THEN Fault
       ELSE List(enc)
  ELSE IF IsTag(obj) \/ IsFault(obj) \/ obj = None THEN Fault
  ELSE obj

(***************************************************************************)
(* Input trees of the differ and patcher.  Maps are built in canonical     *)
(* key order, as decoded DAG-CBOR is.                                      *)
(***************************************************************************)
SeqsUpTo(S, n) == UNION {[1..m -> S] : m \in 0..n}

CanonMaps(K, V) ==
  {Map([i \in 1..Len(SortKeys(DOMAIN f)) |->
          <<SortKeys(DOMAIN f)[i], f[SortKeys(DOMAIN f)[i]]>>]) :
     f \in UNION {[ks -> V] : ks \in SUBSET K}}

KeyK == <<"k">>
KeyN == <<"n">>
KeyAB == <<"a", "b">>

FlatMaps ==
  CanonMaps({KeyK, KeyN, KeyAB}, {Num(1), Str(<<"a">>), Str(<<"b">>)})

FlatLists ==
  {List(s) : s \in SeqsUpTo({Num(1), Num(2), Bool(TRUE)}, MaxLen)}

InnerValues ==
  {Num(1), Num(2), List(<<>>), List(<<Num(1)>>), List(<<Num(1), Num(2)>>),
   Map(<<>>), Map(<< <<KeyK, Num(1)>> >>),
   Map(<< <<KeyK, Num(1)>>, <<KeyAB, Num(2)>> >>)}

NestedMaps == CanonMaps({KeyK, KeyN}, InnerValues)

NestedLists ==
  {List(s) : s \in SeqsUpTo({Num(1), List(<<Num(1)>>),
                             Map(<< <<KeyK, Num(1)>>, <<KeyAB, Num(2)>> >>)},
                            MaxLen)}

DiffTrees ==
  {Num(1), Num(2), Str(<<"a">>)} \cup FlatMaps \cup FlatLists
    \cup NestedMaps \cup NestedLists

(***************************************************************************)
(* Differ / patcher: compute_diff(old, new), then apply_diff(old, *diff).  *)
(***************************************************************************)
HelperIdle ==
  /\ subject = None /\ other = None /\ flat = EmptyDict /\ consumed = 0
  /\ aligned = <<>> /\ hpc = "idle"

SemIdle ==
  /\ tree = None /\ packed = None /\ unpacked = None /\ repacked = None
  /\ spc = "idle"

ChainIdle ==
  /\ operations = <<>> /\ blob = None /\ restored = None /\ cpc = "idle"

InitDiff ==
  /\ old \in DiffTrees
  /\ new \in DiffTrees
  /\ diff = EmptyDiff
  /\ patched = None
  /\ dpc = "start"
  /\ SemIdle
  /\ ChainIdle
  /\ HelperIdle

DoComputeDiff ==
  /\ dpc = "start"
  /\ diff' = ComputeDiff(old, new)
  /\ dpc' = "diffed"
  /\ UNCHANGED <<old, new, patched, semVars, chainVars, helperVars>>

DoApplyDiff ==
  /\ dpc = "diffed"
  /\ patched' = ApplyDiff(old, diff.updates, diff.deletes, diff.inserts,
                          diff.prepends)
  /\ old' = ApplyDiffInput(old, diff.updates, diff.deletes, diff.inserts,
                           diff.prepends)
  /\ dpc' = "applied"
  /\ UNCHANGED <<new, diff, semVars, chainVars, helperVars>>

NextDiff == DoComputeDiff \/ DoApplyDiff

SpecDiff == InitDiff /\ [][NextDiff]_vars

(***************************************************************************)
(* cbor2.dumps / cbor2.loads.  The blob is the pre-order item stream of    *)
(* the value: a map or array head carries its length and is followed by    *)
(* its items, a tag head is followed by its payload, a leaf is one item.   *)
(* Tags 6-9 have no decoder in cbor2 and come back as CBORTag.             *)
(***************************************************************************)
RECURSIVE Flatten(_)
Flatten(seqs) ==
  IF seqs = <<>> THEN <<>> ELSE Head(seqs) \o Flatten(Tail(seqs))

RECURSIVE CborEncode(_)
CborEncode(obj) ==
  IF IsDict(obj) THEN
    << <<"maphead", Len(obj[2])>> >>
      \o Flatten([i \in 1..Len(obj[2]) |->
                    << <<"str", obj[2][i][1]>> >> \o CborEncode(obj[2][i][2])])
  ELSE IF IsList(obj) THEN
    << <<"arrayhead", Len(obj[2])>> >>
      \o Flatten([i \in 1..Len(obj[2]) |-> CborEncode(obj[2][i])])
  ELSE IF IsTag(obj) THEN
    << <<"taghead", obj[2].tag>> >> \o CborEncode(obj[2].value)
  ELSE <<obj>>

\* decode the item that starts at pos: the value and the position after it
RECURSIVE CborDecode(_, _), CborDecodeItems(_, _, _, _), CborDecodeEntries(_, _, _, _)
CborDecode(data, pos) ==
  LET head == data[pos]
  IN IF head[1] = "maphead" THEN
       LET r == CborDecodeEntries(data, pos + 1, head[2], <<>>)
       IN [val |-> Map(r.val), next |-> r.next]
     ELSE IF head[1] = "arrayhead" THEN
       LET r == CborDecodeItems(data, pos + 1, head[2], <<>>)
       IN [val |-> List(r.val), next |-> r.next]
     ELSE IF head[1] = "taghead" THEN
       LET r == CborDecode(data, pos + 1)
       IN [val |-> Tagged(head[2], r.val), next |-> r.next]
     ELSE [val |-> head, next |-> pos + 1]

CborDecodeItems(data, pos, n, acc) ==
  IF n = 0 THEN [val |-> acc, next |-> pos]
  ELSE LET r == CborDecode(data, pos)
       IN CborDecodeItems(data, r.next, n - 1, Append(acc, r.val))

CborDecodeEntries(data, pos, n, acc) ==
  IF n = 0 THEN [val |-> acc, next |-> pos]
  ELSE LET r == CborDecode(data, pos + 1)
       IN CborDecodeEntries(data, r.next, n - 1,
                            Append(acc, <<data[pos][2], r.val>>))

Dumps(obj) == <<"cbor", CborEncode(obj)>>
Loads(data) == CborDecode(data[2], 1).val

(***************************************************************************)
(* compress / decompress.                                                  *)
(***************************************************************************)
\* sorted(...) over a set of indices
RECURSIVE SortNums(_)
SortNums(S) ==
  IF S = {} THEN <<>>
  ELSE LET least == CHOOSE x \in S : \A y \in S : x <= y
       IN <<least>> \o SortNums(S \ {least})

\* [[idx, sem_compress(val)] for idx, vals in sorted(d.items()) for val in vals]
PairsOfLists(d) ==
  Flatten([i \in 1..Len(SortNums(DOMAIN d)) |->
             LET idx == SortNums(DOMAIN d)[i]
             IN [j \in 1..Len(d[idx]) |->
                  List(<<Num(idx), SemCompress(d[idx][j])>>)]])

KeyU == <<"u">>
KeyD == <<"d">>
KeyI == <<"i">>
KeyP == <<"p">>

\* [[idx, sem_compress_value(val)] for idx, val in sorted(updates.items())]
UpdatePairs(d) ==
  List([i \in 1..Len(SortNums(DOMAIN d.updates)) |->
          LET idx == SortNums(DOMAIN d.updates)[i]
          IN List(<<Num(idx), SemCompressValue(d.updates[idx])>>)])

\* sorted(deletes)
DeleteList(d) ==
  List([i \in 1..Len(SortNums(d.deletes)) |-> Num(SortNums(d.deletes)[i])])

\* a diff entry that writes all four fields, empty or not
DiffRecordAllFields(d) ==
  Map(<< <<KeyU, UpdatePairs(d)>>, <<KeyD, DeleteList(d)>>,
         <<KeyI, List(PairsOfLists(d.inserts))>>,
         <<KeyP, List(PairsOfLists(d.prepends))>> >>)

\* the diff entry compress appends for (updates, deletes, inserts, prepends):
\* a field is written only when it is non-empty
DiffRecord(d) ==
  Map((IF DOMAIN d.updates # {} THEN << <<KeyU, UpdatePairs(d)>> >> ELSE <<>>)
      \o (IF d.deletes # {} THEN << <<KeyD, DeleteList(d)>> >> ELSE <<>>)
      \o (IF DOMAIN d.inserts # {}
            THEN << <<KeyI, List(PairsOfLists(d.inserts))>> >>
            ELSE <<>>)
      \o (IF DOMAIN d.prepends # {}
            THEN << <<KeyP, List(PairsOfLists(d.prepends))>> >>
            ELSE <<>>))

\* TRUE when a sem_compress call inside the value raised
RECURSIVE HasFault(_)
HasFault(obj) ==
  IF IsFault(obj) THEN TRUE
  ELSE IF IsDict(obj) THEN \E i \in 1..Len(obj[2]) : HasFault(obj[2][i][2])
  ELSE IF IsList(obj) THEN \E i \in 1..Len(obj[2]) : HasFault(obj[2][i])
  ELSE FALSE

Compress(ops) ==
  IF ops = <<>> THEN Fault
  ELSE LET entries ==
             <<SemCompress(ops[1])>>
               \o [i \in 1..(Len(ops) - 1) |->
                     DiffRecord(ComputeDiff(ops[i], ops[i + 1]))]
       IN IF HasFault(List(entries)) THEN Fault ELSE Dumps(List(entries))

\* the four fields decompress rebuilds from one diff entry
RECURSIVE GroupPairs(_, _, _)
GroupPairs(pairs, i, acc) ==
  IF i > Len(pairs) THEN acc
  ELSE GroupPairs(pairs, i + 1,
         SetDefaultAppend(acc, pairs[i][2][1][2],
                          SemDecompress(pairs[i][2][2])))

ReadDiff(rec) ==
  [updates |->
     IF HasKey(rec, KeyU)
       THEN LET pairs == Get(rec, KeyU)[2]
            IN [idx \in {pairs[i][2][1][2] : i \in 1..Len(pairs)} |->
                  LET last == CHOOSE i \in 1..Len(pairs) :
                                /\ pairs[i][2][1][2] = idx
                                /\ \A j \in (i + 1)..Len(pairs) : pairs[j][2][1][2] # idx
                  IN SemDecompressValue(pairs[last][2][2])]
       ELSE EmptyDict,
   deletes |->
     IF HasKey(rec, KeyD)
       THEN {Get(rec, KeyD)[2][i][2] : i \in 1..Len(Get(rec, KeyD)[2])}
       ELSE {},
   inserts |->
     IF HasKey(rec, KeyI)
       THEN GroupPairs(Get(rec, KeyI)[2], 1, EmptyDict)
       ELSE EmptyDict,
   prepends |->
     IF HasKey(rec, KeyP)
       THEN GroupPairs(Get(rec, KeyP)[2], 1, EmptyDict)
       ELSE EmptyDict]

DiffHasFault(d) ==
  \/ \E idx \in DOMAIN d.updates : IsFault(d.updates[idx])
  \/ \E idx \in DOMAIN d.inserts : HasFault(List(d.inserts[idx]))
  \/ \E idx \in DOMAIN d.prepends : HasFault(List(d.prepends[idx]))

\* for diff in entries[1:]: operations.append(apply_diff(operations[-1], ...))
RECURSIVE DecompressFrom(_, _, _)
DecompressFrom(entries, i, ops) ==
  IF i > Len(entries) THEN List(ops)
  ELSE LET d == ReadDiff(entries[i])
           next == ApplyDiff(ops[Len(ops)], d.updates, d.deletes, d.inserts,
                             d.prepends)
           prev == ApplyDiffInput(ops[Len(ops)], d.updates, d.deletes,
                                  d.inserts, d.prepends)
       IN IF DiffHasFault(d) \/ IsFault(next) THEN Fault
          ELSE DecompressFrom(entries, i + 1,
                 Append([ops EXCEPT ![Len(ops)] = prev], next))

Decompress(data) ==
  LET entries == Loads(data)[2]
  IN IF entries = <<>> THEN Fault
     ELSE IF IsFault(SemDecompress(entries[1])) THEN Fault
     ELSE DecompressFrom(entries, 2, <<SemDecompress(entries[1])>>)

(***************************************************************************)
(* Semantic layer: sem_compress(tree), sem_decompress of the result, and   *)
(* sem_compress applied again to the result.                               *)
(***************************************************************************)
Rep(c, n) == [i \in 1..n |-> c]
DidKey(s) == Str(DidKeyPrefix \o s)
AtUri(s) == Str(AtPrefix \o s)

SemStrings ==
  {Str(<<"a">>),
   AtUri(<<"x">>), AtUri(AtPrefix \o <<"x">>), AtUri(<<>>),
   DidKey(<<"z", "2">>), DidKey(<<"z", "1", "2">>), DidKey(<<"f", "0", "1">>),
   DidKey(<<"z", "0">>),
   Str(CidPrefix \o Rep("a", CidLength - Len(CidPrefix))),
   Str(CidPrefix \o Rep("a", 1)),
   Str(Rep("A", SigLength)),
   Str(Rep("A", SigLength - 1) \o <<"B">>),
   Str(<<"-">> \o Rep("A", SigLength - 1)),
   Str(<<"!">> \o Rep("A", SigLength - 1))}

SemLeaves ==
  SemStrings \cup
  {Num(1), Bytes(<<1>>),
   Tagged(TAG_AT_URI, Str(<<"x">>)), Tagged(TAG_AT_URI, AtUri(<<"x">>)),
   Tagged(TAG_DID_KEY, Bytes(<<1>>)), Tagged(TAG_SIG, Bytes(Rep(0, SigBytes))),
   Tagged(TAG_CID, Bytes(<<1, 113>>))}

SemTrees ==
  SemLeaves
    \cup {List(q) : q \in SeqsUpTo(SemLeaves, MaxLen - 1)}
    \cup {Map(<< <<KeyK, x>> >>) : x \in SemLeaves}
    \cup {Map(<< <<KeyK, List(<<x>>)>>, <<KeyN, Num(1)>> >>) : x \in SemLeaves}

DiffIdle ==
  /\ old = None /\ new = None /\ diff = EmptyDiff /\ patched = None
  /\ dpc = "idle"

InitSem ==
  /\ tree \in SemTrees
  /\ packed = None
  /\ unpacked = None
  /\ repacked = None
  /\ spc = "start"
  /\ DiffIdle
  /\ ChainIdle
  /\ HelperIdle

DoSemCompress ==
  /\ spc = "start"
  /\ packed' = SemCompress(tree)
  /\ spc' = "packed"
  /\ UNCHANGED <<tree, unpacked, repacked, diffVars, chainVars, helperVars>>

DoSemDecompress ==
  /\ spc = "packed"
  /\ ~IsFault(packed)
  /\ unpacked' = SemDecompress(packed)
  /\ spc' = "unpacked"
  /\ UNCHANGED <<tree, packed, repacked, diffVars, chainVars, helperVars>>

DoSemRecompress ==
  /\ spc = "unpacked"
  /\ repacked' = SemCompress(packed)
  /\ spc' = "repacked"
  /\ UNCHANGED <<tree, packed, unpacked, diffVars, chainVars, helperVars>>

NextSem == DoSemCompress \/ DoSemDecompress \/ DoSemRecompress

SpecSem == InitSem /\ [][NextSem]_vars

(***************************************************************************)
(* Chain codec: compress(operations), then decompress of the blob.  A blob *)
(* can also reach decompress from storage without compress having made it. *)
(***************************************************************************)
Op(k, n) == Map(<< <<KeyK, k>>, <<KeyN, n>> >>)

ChainOps ==
  {Op(Str(<<"a">>), Num(1)),
   Op(Str(<<"b">>), Num(1)),
   Map(<< <<KeyN, Num(1)>> >>),
   Op(List(<<Num(1)>>), Num(1)),
   Op(List(<<Num(2), Num(1)>>), Num(1)),
   Op(Num(1), Num(2)),
   Op(AtUri(<<"x">>), Num(1)),
   Op(DidKey(<<"z", "2">>), List(<<AtUri(<<"x">>)>>)),
   Op(DidKey(<<"f", "0", "1">>), Num(1)),
   Op(DidKey(<<"z", "0">>), Num(1)),
   Op(Map(<< <<KeyK, Num(1)>>, <<KeyAB, AtUri(<<"x">>)>> >>), Num(1))}

Chains == SeqsUpTo(ChainOps, MaxChain)

StoredBlobs == {Dumps(List(<<>>))}

InitChain ==
  /\ \/ /\ operations \in Chains
        /\ blob = None
        /\ cpc = "start"
     \/ /\ operations = <<>>
        /\ blob \in StoredBlobs
        /\ cpc = "stored"
  /\ restored = None
  /\ DiffIdle
  /\ SemIdle
  /\ HelperIdle

DoCompress ==
  /\ cpc = "start"
  /\ blob' = Compress(operations)
  /\ cpc' = "compressed"
  /\ UNCHANGED <<operations, restored, diffVars, semVars, helperVars>>

DoDecompress ==
  /\ cpc \in {"compressed", "stored"}
  /\ ~IsFault(blob)
  /\ restored' = Decompress(blob)
  /\ cpc' = "restored"
  /\ UNCHANGED <<operations, blob, diffVars, semVars, helperVars>>

NextChain == DoCompress \/ DoDecompress

SpecChain == InitChain /\ [][NextChain]_vars

(***************************************************************************)
(* Properties of the differ and patcher, checked under SpecDiff.           *)
(***************************************************************************)
\* C2 (DIFF-1): once apply_diff(old, compute_diff(old, new)) has returned,
\* its result canonical-encodes equal to new, for every pair of trees.
DIFF1_ApplyInvertsDiff ==
  dpc = "applied" =>
    /\ ~IsFault(patched)
    /\ DagCborEncode(patched) = DagCborEncode(new)

\* every map of the tree, at every depth, has its keys in (length, lex) order
RECURSIVE IsCanonical(_)
IsCanonical(obj) ==
  IF IsDict(obj) THEN
    /\ \A i \in 1..(Len(obj[2]) - 1) : KeyLess(obj[2][i][1], obj[2][i + 1][1])
    /\ \A i \in 1..Len(obj[2]) : IsCanonical(obj[2][i][2])
  ELSE IF IsList(obj) THEN \A i \in 1..Len(obj[2]) : IsCanonical(obj[2][i])
  ELSE TRUE

\* C5 (CAN-1): for canonical old and new, every map in the tree returned by
\* apply_diff(old, compute_diff(old, new)) has its keys ordered by length and
\* then lexicographically, at every depth.
CAN1_PatchedIsCanonical ==
  (dpc = "applied" /\ ~IsFault(patched)) => IsCanonical(patched)

\* a key was inserted into a map and sorts before a key the map already had
CAN1_Witness ==
  /\ dpc = "applied"
  /\ IsDict(old) /\ IsDict(patched)
  /\ 0 \in DOMAIN diff.inserts
  /\ Len(patched[2]) >= 2
  /\ patched[2][1][1] \notin Keys(old)
  /\ patched[2][2][1] \in Keys(old)

\* the roles build_index(old) gives the index idx
RolesAt(obj, idx) == {s.role : s \in {t \in Slots(obj) : t.idx = idx}}
NodeRoles == {"root", "value", "elem"}

\* C6: every index of compute_diff(old, new) is an index of old's walk: an
\* update key is the index of a value node, a delete is the index of an entry
\* marker or of a sequence element, an insert key is the index of a map or
\* sequence node, a prepend key is the index of a sequence element.
IndicesReferToOld ==
  dpc # "start" =>
    /\ \A idx \in DOMAIN diff.updates : RolesAt(old, idx) \cap NodeRoles # {}
    /\ \A idx \in diff.deletes : RolesAt(old, idx) \cap {"entry", "elem"} # {}
    /\ \A idx \in DOMAIN diff.inserts :
         \E s \in Slots(old) :
           s.idx = idx /\ s.role \in NodeRoles /\ IsContainer(s.node)
    /\ \A idx \in DOMAIN diff.prepends : "elem" \in RolesAt(old, idx)

A9 == Map(<< <<KeyK, Str(<<"a">>)>>, <<KeyN, Num(1)>> >>)
B9 == Map(<< <<KeyK, Str(<<"b">>)>>, <<KeyN, Num(1)>> >>)

\* C9 as amended: for A = {"k": "a", "n": 1} and B = {"k": "b", "n": 1} the
\* diff record is exactly {"u": [[3, "b"]]}; index 3 is the value of entry
\* "k" under the indexer's walk (0 map, 1 entry marker, 2 key name).
UpdateOnlyRecordAtIndex3 ==
  (dpc # "start" /\ old = A9 /\ new = B9) =>
    /\ DiffRecord(diff) =
         Map(<< <<KeyU, List(<<List(<<Num(3), Str(<<"b">>)>>)>>)>> >>)
    /\ \E s \in Slots(old) :
         s.idx = 3 /\ s.role = "value" /\ s.node = Get(old, KeyK)

UpdateOnly_Witness == dpc = "diffed" /\ old = A9 /\ new = B9

\* C9 as stated: the diff record for that pair is exactly {"u": [[2, "b"]]}
\* and index 2 is the value of entry "k".
UpdateOnlyRecordAtIndex2 ==
  (dpc # "start" /\ old = A9 /\ new = B9) =>
    /\ DiffRecord(diff) =
         Map(<< <<KeyU, List(<<List(<<Num(2), Str(<<"b">>)>>)>>)>> >>)
    /\ \E s \in Slots(old) :
         s.idx = 2 /\ s.role = "value" /\ s.node = Get(old, KeyK)

A10 == Map(<< <<KeyN, Num(1)>> >>)
B10 == Map(<< <<KeyK, Str(<<"a">>)>>, <<KeyN, Num(1)>> >>)

KeyOrder(obj) == [i \in 1..Len(obj[2]) |-> obj[2][i][1]]
InsertKA == List(<<List(<<Num(0), List(<<Str(KeyK), Str(<<"a">>)>>)>>)>>)

\* C10 as amended: for A = {"n": 1} and B = {"k": "a", "n": 1} the diff has
\* exactly one "i" entry, keyed at the map's index 0 with value ["k", "a"];
\* after apply_diff the map is in the key order ["k", "n"] and encodes
\* identically to B.
MapInsertOrderKN ==
  (dpc = "applied" /\ old = A10 /\ new = B10) =>
    /\ Get(DiffRecord(diff), KeyI) = InsertKA
    /\ IsDict(patched)
    /\ KeyOrder(patched) = <<KeyK, KeyN>>
    /\ DagCborEncode(patched) = DagCborEncode(new)

MapInsert_Witness == dpc = "applied" /\ old = A10 /\ new = B10

\* C10 as stated: the same, with the resulting key order ["n", "k"].
MapInsertOrderNK ==
  (dpc = "applied" /\ old = A10 /\ new = B10) =>
    /\ Get(DiffRecord(diff), KeyI) = InsertKA
    /\ IsDict(patched)
    /\ KeyOrder(patched) = <<KeyN, KeyK>>
    /\ DagCborEncode(patched) = DagCborEncode(new)

(***************************************************************************)
(* Properties of the semantic tag layer, checked under SpecSem.            *)
(***************************************************************************)
\* the tree holds strings, numbers and bytes only: no leaf is already tagged
RECURSIVE Untagged(_)
Untagged(obj) ==
  IF IsDict(obj) THEN \A i \in 1..Len(obj[2]) : Untagged(obj[2][i][2])
  ELSE IF IsList(obj) THEN \A i \in 1..Len(obj[2]) : Untagged(obj[2][i])
  ELSE ~IsTag(obj)

\* C3 (SEM-1, round trip): for every tree T without tagged leaves,
\* sem_decompress(sem_compress(T)) equals T, whether or not a recognized
\* string is the canonical text of its payload bytes.
SEM1_RoundTrip ==
  (Untagged(tree) /\ spc \in {"unpacked", "repacked"}) => unpacked = tree

\* C4 (SEM-1, idempotence): sem_compress(sem_compress(T)) equals
\* sem_compress(T) for every tree T; a tagged leaf is never re-tagged or
\* altered, whatever its payload.
SEM1_Idempotent ==
  spc = "repacked" => repacked = packed

\* the first pass produced a Tagged(9) leaf whose payload is itself of a
\* recognized shape, and the second pass has run over it
SEM1_IdempotentWitness ==
  /\ spc = "repacked"
  /\ tree = AtUri(AtPrefix \o <<"x">>)
  /\ packed = Tagged(TAG_AT_URI, AtUri(<<"x">>))

(***************************************************************************)
(* Properties of the chain codec, checked under SpecChain.                 *)
(***************************************************************************)
\* C1 (RT-1): for every chain of one or more operations,
\* decompress(compress(ops)) is a chain of the same length, and at every
\* position the canonical encoding of the restored operation equals that of
\* the original one.
RT1_RoundTrip ==
  (Len(operations) >= 1 /\ cpc = "restored") =>
    /\ IsList(restored)
    /\ Len(restored[2]) = Len(operations)
    /\ \A i \in 1..Len(operations) :
         DagCborEncode(restored[2][i]) = DagCborEncode(operations[i])

EmptySequenceBlob == Dumps(List(<<>>))

\* C7: compress of the empty chain returns the blob of the empty sequence,
\* and decompress of that blob returns the empty chain.
EmptyChainBoundary ==
  /\ (cpc = "compressed" /\ operations = <<>>) => blob = EmptySequenceBlob
  /\ (cpc = "restored" /\ blob = EmptySequenceBlob) => restored = List(<<>>)

\* C8: for N >= 1 copies of one tree T, the sequence compress serializes is
\* [sem_compress(T)] followed by N-1 empty-map diff records (and compress
\* raises exactly when sem_compress(T) does).
NoOpChainRecords ==
  (/\ cpc \in {"compressed", "restored"}
   /\ Len(operations) >= 1
   /\ \A i \in 1..Len(operations) : operations[i] = operations[1]) =>
    IF IsFault(SemCompress(operations[1])) THEN IsFault(blob)
    ELSE /\ ~IsFault(blob)
         /\ Loads(blob) =
              List(<<SemCompress(operations[1])>>
                   \o [i \in 1..(Len(operations) - 1) |-> Map(<<>>)])

\* three copies of an operation that holds a tagged string were compressed
NoOpChainWitness ==
  /\ cpc = "compressed"
  /\ Len(operations) = 3
  /\ \A i \in 1..3 : operations[i] = Op(AtUri(<<"x">>), Num(1))
  /\ ~IsFault(blob)

(***************************************************************************)
(* Sequence additions (C11), checked under SpecDiff.                       *)
(***************************************************************************)
\* the index build_index gives element pos (0-based) of a sequence whose own
\* index is base
RECURSIVE ElemIndex(_, _, _)
ElemIndex(seq, base, pos) ==
  IF pos = 0 THEN base + 1
  ELSE ElemIndex(seq, base, pos - 1) + CountIndices(seq[2][pos])

\* the index build_index gives the value of the i-th entry of the root map
RECURSIVE ValueIndex(_, _)
ValueIndex(obj, i) ==
  IF i = 1 THEN 3
  ELSE ValueIndex(obj, i - 1) + CountIndices(obj[2][i - 1][2]) + 2

\* the new positions outside the alignment, and for each the old position of
\* the first aligned element that follows it in new (-1 when none follows)
Unmatched(new_seq, pairs) ==
  {j \in 0..(Len(new_seq[2]) - 1) : \A p \in 1..Len(pairs) : pairs[p][2] # j}

TargetOf(j, pairs) ==
  LET after == {p \in 1..Len(pairs) : pairs[p][2] > j}
  IN IF after = {} THEN -1
     ELSE pairs[CHOOSE p \in after : \A q \in after : pairs[p][2] <= pairs[q][2]][1]

\* the elements of new at the positions J, in ascending position
RECURSIVE PickInOrder(_, _)
PickInOrder(new_seq, J) ==
  IF J = {} THEN <<>>
  ELSE LET least == CHOOSE j \in J : \A k \in J : j <= k
       IN <<new_seq[2][least + 1]>> \o PickInOrder(new_seq, J \ {least})

\* a pair of sequences old_seq -> new_seq, old_seq having the index base in
\* old, has its additions in the diff d where C11 puts them
AdditionsPlaced(old_seq, new_seq, base, d) ==
  LET pairs == ComputeLcs(old_seq[2], new_seq[2])
      extra == Unmatched(new_seq, pairs)
      tail == {j \in extra : TargetOf(j, pairs) = -1}
  IN /\ \A pos \in {TargetOf(j, pairs) : j \in extra \ tail} :
          /\ ElemIndex(old_seq, base, pos) \in DOMAIN d.prepends
          /\ d.prepends[ElemIndex(old_seq, base, pos)] =
               PickInOrder(new_seq, {j \in extra : TargetOf(j, pairs) = pos})
     /\ tail # {} =>
          /\ base \in DOMAIN d.inserts
          /\ d.inserts[base] = PickInOrder(new_seq, tail)

\* C11: for every pair of sequences that old and new hold at the same place
\* (the roots, or the values of one key of two root maps), each new element
\* outside the LCS alignment is a prepend keyed at the old index of the
\* first aligned element that follows it, or else an insert keyed at the
\* sequence's own index in old; additions for one target keep their order.
SequenceAdditionsByPosition ==
  dpc # "start" =>
    /\ (IsList(old) /\ IsList(new)) => AdditionsPlaced(old, new, 0, diff)
    /\ (IsDict(old) /\ IsDict(new)) =>
         \A i \in 1..Len(old[2]) :
           (/\ HasKey(new, old[2][i][1])
            /\ IsList(old[2][i][2])
            /\ IsList(Get(new, old[2][i][1]))) =>
             AdditionsPlaced(old[2][i][2], Get(new, old[2][i][1]),
                             ValueIndex(old, i), diff)

\* the same for the two roots only
SequenceAdditionsAtRoot ==
  (dpc # "start" /\ IsList(old) /\ IsList(new)) =>
    AdditionsPlaced(old, new, 0, diff)

(***************************************************************************)
(* Patcher on diffs of any origin: apply_diff(old, *diff) for a diff the   *)
(* caller supplies (decompress reads its diffs from the blob).             *)
(***************************************************************************)
PatchTrees ==
  {Num(1),
   List(<<Num(1), Num(2)>>),
   Map(<< <<KeyK, Str(<<"a">>)>>, <<KeyN, Num(1)>> >>),
   Map(<< <<KeyK, List(<<Num(1)>>)>>, <<KeyN, Num(1)>> >>),
   List(<<List(<<Num(1)>>), Map(<< <<KeyK, Num(1)>> >>)>>)}

\* indices a diff for t may name: every index of t's walk and one past it
PatchIndices(t) == 0..CountIndices(t)

\* dicts keyed by at most one index of I with a value of V
SmallDicts(I, V) ==
  {EmptyDict} \cup {Put(EmptyDict, i, v) : i \in I, v \in V}

PatchDiffs(t) ==
  [updates : SmallDicts(PatchIndices(t), {Num(2), List(<<Num(2)>>)}),
   deletes : {{}} \cup {{i} : i \in PatchIndices(t)},
   inserts : SmallDicts(PatchIndices(t),
               {<<Num(2)>>, <<List(<<Str(KeyAB), Num(2)>>)>>}),
   prepends : SmallDicts(PatchIndices(t), {<<Num(2)>>})]

InitPatch ==
  /\ old \in PatchTrees
  /\ diff \in PatchDiffs(old)
  /\ new = None
  /\ patched = None
  /\ dpc = "given"
  /\ SemIdle
  /\ ChainIdle
  /\ HelperIdle

DoPatch ==
  /\ dpc = "given"
  /\ patched' = ApplyDiff(old, diff.updates, diff.deletes, diff.inserts,
                          diff.prepends)
  /\ old' = ApplyDiffInput(old, diff.updates, diff.deletes, diff.inserts,
                           diff.prepends)
  /\ dpc' = "patched"
  /\ UNCHANGED <<new, diff, semVars, chainVars, helperVars>>

NextPatch == DoPatch

SpecPatch == InitPatch /\ [][NextPatch]_vars

\* every index the diff names, in any field
DiffIndices(d) ==
  (DOMAIN d.updates) \cup d.deletes \cup (DOMAIN d.inserts)
    \cup (DOMAIN d.prepends)

\* C12: when the diff names an index past the last index of the old tree's
\* walk (an index the walk never reaches), apply_diff fails and yields no
\* tree.
PatchRejectsUnreachedIndex ==
  (/\ dpc = "patched"
   /\ \E idx \in DiffIndices(diff) : idx >= CountIndices(old)) =>
    IsFault(patched)

RootUpdateApplied ==
  (dpc = "patched" /\ ~IsFault(patched) /\ 0 \in DOMAIN diff.updates) =>
    patched = diff.updates[0]

(***************************************************************************)
(* Helper functions on their own: build_index(subject),                    *)
(* count_indices(subject) and compute_lcs(subject, other).                 *)
(***************************************************************************)
HelperLists == FlatLists \cup NestedLists

InitHelpers ==
  /\ subject \in DiffTrees
  /\ other \in IF IsList(subject) THEN HelperLists ELSE {None}
  /\ flat = EmptyDict
  /\ consumed = 0
  /\ aligned = <<>>
  /\ hpc = "start"
  /\ DiffIdle
  /\ SemIdle
  /\ ChainIdle

DoBuildIndex ==
  /\ hpc = "start"
  /\ flat' = BuildIndex(subject)
  /\ hpc' = "indexed"
  /\ UNCHANGED <<subject, other, consumed, aligned, diffVars, semVars, chainVars>>

DoCountIndices ==
  /\ hpc = "indexed"
  /\ consumed' = CountIndices(subject)
  /\ hpc' = "counted"
  /\ UNCHANGED <<subject, other, flat, aligned, diffVars, semVars, chainVars>>

DoComputeLcs ==
  /\ hpc = "counted"
  /\ IsList(subject)
  /\ aligned' = ComputeLcs(subject[2], other[2])
  /\ hpc' = "aligned"
  /\ UNCHANGED <<subject, other, flat, consumed, diffVars, semVars, chainVars>>

NextHelpers == DoBuildIndex \/ DoCountIndices \/ DoComputeLcs

SpecHelpers == InitHelpers /\ [][NextHelpers]_vars

\* the number of map entries of a tree, at every depth
RECURSIVE EntryCount(_)
EntryCount(obj) ==
  IF IsDict(obj) THEN
    LET below[i \in 0..Len(obj[2])] ==
          IF i = 0 THEN 0 ELSE below[i - 1] + 1 + EntryCount(obj[2][i][2])
    IN below[Len(obj[2])]
  ELSE IF IsList(obj) THEN
    LET below[i \in 0..Len(obj[2])] ==
          IF i = 0 THEN 0 ELSE below[i - 1] + EntryCount(obj[2][i])
    IN below[Len(obj[2])]
  ELSE 0

\* an empty map, an empty sequence or a leaf
IsEdgeTree(obj) == ~IsContainer(obj) \/ obj[2] = <<>>

\* C13 as amended: count_indices(T) is the number of indices the walk of
\* build_index(T) consumes: the number of items of the mapping plus one per
\* map entry of T (the entry-marker slots, which the mapping leaves out);
\* an empty map, an empty sequence and a leaf each give 1.
CountIsItemsPlusEntryMarkers ==
  hpc \in {"counted", "aligned"} =>
    /\ consumed = Cardinality(DOMAIN flat) + EntryCount(subject)
    /\ IsEdgeTree(subject) => consumed = 1

\* both functions have run on a map that holds a non-empty map
CountIndicesWitness ==
  /\ hpc = "counted"
  /\ IsDict(subject)
  /\ \E i \in 1..Len(subject[2]) :
       IsDict(subject[2][i][2]) /\ subject[2][i][2][2] # <<>>

\* C13 as stated: count_indices(T) equals the number of items of the mapping
\* build_index(T) returns; an empty map, an empty sequence and a leaf give 1.
CountIsItemCount ==
  hpc \in {"counted", "aligned"} =>
    /\ consumed = Cardinality(DOMAIN flat)
    /\ IsEdgeTree(subject) => consumed = 1

(***************************************************************************)
(* compute_lcs as an alignment of two sequences.                           *)
(***************************************************************************)
\* the pairs run strictly upwards in both coordinates and stay inside the
\* two lists
IsAlignment(pairs, old_list, new_list) ==
  /\ \A p \in 1..Len(pairs) :
       /\ pairs[p][1] \in 0..(Len(old_list) - 1)
       /\ pairs[p][2] \in 0..(Len(new_list) - 1)
  /\ \A p \in 1..(Len(pairs) - 1) :
       /\ pairs[p][1] < pairs[p + 1][1]
       /\ pairs[p][2] < pairs[p + 1][2]

\* sets of position pairs that are chains in both coordinates
Chains2(n, m) ==
  {S \in SUBSET ((0..(n - 1)) \X (0..(m - 1))) :
     \A a \in S, b \in S :
       a # b => \/ (a[1] < b[1] /\ a[2] < b[2])
                \/ (b[1] < a[1] /\ b[2] < a[2])}

\* the size of the longest alignment whose pairs join elements that are the
\* same leaf variant with the same value, or containers equal part by part
LongestStructural(old_list, new_list) ==
  LET fits == {S \in Chains2(Len(old_list), Len(new_list)) :
                 \A a \in S : old_list[a[1] + 1] = new_list[a[2] + 1]}
  IN CHOOSE k \in 0..Len(old_list) :
       /\ \E S \in fits : Cardinality(S) = k
       /\ \A S \in fits : Cardinality(S) <= k

\* the size of the longest alignment under the comparison the code uses
LongestPyEq(old_list, new_list) ==
  LET fits == {S \in Chains2(Len(old_list), Len(new_list)) :
                 \A a \in S : PyEq(old_list[a[1] + 1], new_list[a[2] + 1])}
  IN CHOOSE k \in 0..Len(old_list) :
       /\ \E S \in fits : Cardinality(S) = k
       /\ \A S \in fits : Cardinality(S) <= k

\* C17: compute_lcs(old_list, new_list) returns a longest common
\* subsequence alignment: the pairs are strictly increasing in both
\* coordinates, each pair joins structurally equal elements, no longer such
\* alignment exists, and on a tie the upper-row predecessor is taken (the
\* old position is decremented first): for [1, 2] against [2, 1] the
\* alignment is (0, 1), not (1, 0).
LcsIsStructuralAlignment ==
  hpc = "aligned" =>
    /\ IsAlignment(aligned, subject[2], other[2])
    /\ \A p \in 1..Len(aligned) :
         subject[2][aligned[p][1] + 1] = other[2][aligned[p][2] + 1]
    /\ Len(aligned) = LongestStructural(subject[2], other[2])
    /\ (subject = List(<<Num(1), Num(2)>>) /\ other = List(<<Num(2), Num(1)>>))
         => aligned = << <<0, 1>> >>

\* the same four properties with Python's == as the comparison, under which
\* the integer 1 and the boolean true are equal
LcsIsPyEqAlignment ==
  hpc = "aligned" =>
    /\ IsAlignment(aligned, subject[2], other[2])
    /\ \A p \in 1..Len(aligned) :
         PyEq(subject[2][aligned[p][1] + 1], other[2][aligned[p][2] + 1])
    /\ Len(aligned) = LongestPyEq(subject[2], other[2])
    /\ (subject = List(<<Num(1), Num(2)>>) /\ other = List(<<Num(2), Num(1)>>))
         => aligned = << <<0, 1>> >>

(***************************************************************************)
(* The diff entries of a blob, checked under SpecChain.                    *)
(***************************************************************************)
\* the diff entry compress wrote for operations[i - 1] -> operations[i]
WrittenRecord(i) == Loads(blob)[2][i]

\* the index of the p-th pair of a "u", "i" or "p" field
PairIndex(field, p) == field[2][p][2][1][2]

\* the record uses only the four keys, each exactly when its field is
\* non-empty, and lists "u" pairs and "d" indices in strictly ascending order
RecordShape(rec, d) ==
  /\ Keys(rec) \subseteq {KeyU, KeyD, KeyI, KeyP}
  /\ HasKey(rec, KeyU) <=> DOMAIN d.updates # {}
  /\ HasKey(rec, KeyD) <=> d.deletes # {}
  /\ HasKey(rec, KeyI) <=> DOMAIN d.inserts # {}
  /\ HasKey(rec, KeyP) <=> DOMAIN d.prepends # {}
  /\ HasKey(rec, KeyU) =>
       \A p \in 1..(Len(Get(rec, KeyU)[2]) - 1) :
         PairIndex(Get(rec, KeyU), p) < PairIndex(Get(rec, KeyU), p + 1)
  /\ HasKey(rec, KeyD) =>
       \A p \in 1..(Len(Get(rec, KeyD)[2]) - 1) :
         Get(rec, KeyD)[2][p][2] < Get(rec, KeyD)[2][p + 1][2]

\* C14: the diff record is a lossless wire form of the diff: for every diff
\* compute_diff returns inside compress, the record written has keys only
\* from "u", "d", "i", "p", each present exactly when its field is
\* non-empty, with "u" pairs and "d" indices strictly ascending, and the
\* four fields decompress rebuilds from the record equal the original four
\* fields, the additions of each index in the order written.
DiffRecordLossless ==
  (cpc \in {"compressed", "restored"} /\ ~IsFault(blob)) =>
    \A i \in 2..Len(operations) :
      LET d == ComputeDiff(operations[i - 1], operations[i])
      IN /\ RecordShape(WrittenRecord(i), d)
         /\ ReadDiff(WrittenRecord(i)) = d

\* the shape part alone
DiffRecordShape ==
  (cpc \in {"compressed", "restored"} /\ ~IsFault(blob)) =>
    \A i \in 2..Len(operations) :
      RecordShape(WrittenRecord(i),
                  ComputeDiff(operations[i - 1], operations[i]))

\* a string sem_compress_value replaces by a tagged value
Recognized(obj) ==
  /\ IsStr(obj)
  /\ ~IsFault(SemCompressValue(obj))
  /\ SemCompressValue(obj) # obj

\* some leaf of the tree, at any depth, is a recognized string left as it is
RECURSIVE HasUntagged(_)
HasUntagged(obj) ==
  IF IsDict(obj) THEN \E i \in 1..Len(obj[2]) : HasUntagged(obj[2][i][2])
  ELSE IF IsList(obj) THEN \E i \in 1..Len(obj[2]) : HasUntagged(obj[2][i])
  ELSE Recognized(obj)

\* the values the record carries: the second item of every "u", "i" and "p"
\* pair
CarriedValues(rec) ==
  UNION {{Get(rec, key)[2][p][2][2] : p \in 1..Len(Get(rec, key)[2])} :
           key \in Keys(rec) \cap {KeyU, KeyI, KeyP}}

\* C18: every value carried inside an emitted diff is semantically
\* compressed: in the output of compress no "u" value and no "i" or "p"
\* subtree contains, at any depth, a string of a recognized shape left
\* untagged, an update whose value is a whole map or sequence included.
DiffValuesSemCompressed ==
  (cpc \in {"compressed", "restored"} /\ ~IsFault(blob)) =>
    \A i \in 2..Len(operations) :
      \A v \in CarriedValues(WrittenRecord(i)) : ~HasUntagged(v)

\* the same for the "i" and "p" subtrees and for the "u" values that are
\* leaves
AdditionsSemCompressed ==
  (cpc \in {"compressed", "restored"} /\ ~IsFault(blob)) =>
    \A i \in 2..Len(operations) :
      /\ \A v \in CarriedValues(WrittenRecord(i)) :
           ~IsContainer(v) => ~HasUntagged(v)
      /\ \A key \in Keys(WrittenRecord(i)) \cap {KeyI, KeyP} :
           \A p \in 1..Len(Get(WrittenRecord(i), key)[2]) :
             ~HasUntagged(Get(WrittenRecord(i), key)[2][p][2][2])

=============================================================================
